---- MODULE Spec2Model ----
(***************************************************************************)
(* A model of gomarkdoc's command pipeline (cmd/command.go, cmd/output.go): *)
(* path expansion (GetSpecs), output routing (ResolveOutput), package       *)
(* loading (LoadPackages), and output reconciliation (WriteOutput with      *)
(* CheckFile, EmbedContents, WriteFile), plus the helpers DefaultTags and   *)
(* Compare.                                                                 *)
(*                                                                          *)
(* Text is a sequence of atoms.  An atom is one character ("x", "y", " ",   *)
(* "\n") or one whole marker comment:                                       *)
(*   "M"  <!-- gomarkdoc:Embed -->          "m"  <!-- gomarkdoc:embed -->   *)
(*   "S"  <!-- gomarkdoc:Embed:start -->    "E"  <!-- gomarkdoc:Embed:end -->*)
(***************************************************************************)
EXTENDS Integers, Sequences, FiniteSets, TLC

VARIABLES
    pc,        \* position of the run, or of a harness
    arg,       \* harness: the input of the operation under study
    ret,       \* harness: its result
    opts,      \* CommandOptions
    cmdArgs,   \* the package arguments of the command line
    specs,     \* []*PackageSpec, as GetSpecs returned and later steps filled
    fs,        \* the files at the destinations: path -> [kind, data]
    cursor,    \* LoadPackages: the index of the next descriptor
    filePkgs,  \* WriteOutput: the map from output file to its packages
    pending,   \* WriteOutput: the keys the range over filePkgs has yet to visit
    err,       \* the error the run returned
    stdout,    \* what the run printed on standard output
    trace,     \* history: the loads and file operations of the run, in order
    fs0        \* history: the files before the run

runVars == <<opts, cmdArgs, specs, fs, cursor, filePkgs, pending, err, stdout, trace, fs0>>
vars == <<pc, arg, ret, opts, cmdArgs, specs, fs, cursor, filePkgs, pending, err, stdout, trace,
          fs0>>

NoValue == [none |-> TRUE]

\* The variables of the run, in a harness that does not run the command
NoRun ==
    /\ opts = NoValue /\ cmdArgs = <<>> /\ specs = <<>> /\ fs = <<>> /\ cursor = 0
    /\ filePkgs = <<>> /\ pending = {} /\ err = NoValue /\ stdout = <<>> /\ trace = <<>>
    /\ fs0 = <<>>

(***************************************************************************)
(* Text helpers                                                            *)
(***************************************************************************)
NL == "\n"

RECURSIVE SeqsUpTo(_, _)
SeqsUpTo(S, n) ==
    IF n = 0 THEN {<<>>}
    ELSE LET shorter == SeqsUpTo(S, n - 1)
         IN  shorter \cup {Append(s, x) : s \in {t \in shorter : Len(t) = n - 1}, x \in S}

\* \s of the regular expressions, over the atoms of the model
IsSpace(c) == c \in {" ", NL}

\* (?m:^) holds before atom i
LineStart(d, i) == i = 1 \/ d[i - 1] = NL

\* (?m:$) holds before atom i
LineEnd(d, i) == i = Len(d) + 1 \/ d[i] = NL

\* " *" from position i, greedy: the first position not holding a space
RECURSIVE SkipSpaces(_, _)
SkipSpaces(d, i) ==
    IF i <= Len(d) /\ d[i] = " " THEN SkipSpaces(d, i + 1) ELSE i

\* A greedy \s*$ instead: the farthest line end reachable over white space
SpaceToEolGreedy(d, i) ==
    LET ends == {j \in i..(Len(d) + 1) :
                    LineEnd(d, j) /\ \A k \in i..(j - 1) : IsSpace(d[k])}
    IN  IF ends = {} THEN 0 ELSE CHOOSE j \in ends : \A k \in ends : k <= j

\* (?m:\s*?$) from position i, lazy: the nearest line end reachable over
\* white space only; 0 when there is none
RECURSIVE LazySpaceToEol(_, _)
LazySpaceToEol(d, i) ==
    IF LineEnd(d, i) THEN i
    ELSE IF IsSpace(d[i]) THEN LazySpaceToEol(d, i + 1)
    ELSE 0

\* embedStandaloneRegex at position i: the end of the match, 0 when none
StandaloneMatch(d, i) ==
    IF ~LineStart(d, i) THEN 0
    ELSE LET j == SkipSpaces(d, i)
         IN  IF j <= Len(d) /\ d[j] = "M" THEN LazySpaceToEol(d, j + 1) ELSE 0

\* (?s:.*?)<!--\s*gomarkdoc:Embed:end\s*-->(?m:\s*?$) from position k, lazy:
\* the first end marker that only white space separates from its line end
RECURSIVE LazyToEnd(_, _)
LazyToEnd(d, k) ==
    IF k > Len(d) THEN 0
    ELSE IF d[k] = "E" /\ LazySpaceToEol(d, k + 1) # 0 THEN LazySpaceToEol(d, k + 1)
    ELSE LazyToEnd(d, k + 1)

\* embedStartRegex at position i: the end of the match, 0 when none
StartMatch(d, i) ==
    IF ~LineStart(d, i) THEN 0
    ELSE LET j == SkipSpaces(d, i)
         IN  IF j <= Len(d) /\ d[j] = "S" THEN LazyToEnd(d, j + 1) ELSE 0

\* The match of one of the two regular expressions at position i
MatchAt(re, d, i) ==
    IF re = "embedStandaloneRegex" THEN StandaloneMatch(d, i) ELSE StartMatch(d, i)

\* Regexp.ReplaceAllFunc: leftmost, non-overlapping matches of re are
\* replaced by repl; the callback counts them
RECURSIVE ReplaceAllFunc(_, _, _, _)
ReplaceAllFunc(re, d, i, repl) ==
    IF i > Len(d) THEN [data |-> <<>>, n |-> 0]
    ELSE LET e == MatchAt(re, d, i)
         IN  IF e # 0
             THEN LET r == ReplaceAllFunc(re, d, e, repl)
                  IN  [data |-> repl \o r.data, n |-> r.n + 1]
             ELSE LET r == ReplaceAllFunc(re, d, i + 1, repl)
                  IN  [data |-> <<d[i]>> \o r.data, n |-> r.n]

\* fmt.Sprintf("<!-- gomarkdoc:Embed:start -->\n\n%s\n\n<!-- gomarkdoc:Embed:end -->", text)
embedText(text) == <<"S", NL, NL>> \o text \o <<NL, NL, "E">>

\* EmbedContents(log, fileName, text); file is the state of fileName
EmbedContents(file, text) ==
    IF file.kind # "file" THEN embedText(text)
    ELSE LET r1 == ReplaceAllFunc("embedStandaloneRegex", file.data, 1, embedText(text))
             r2 == ReplaceAllFunc("embedStartRegex", r1.data, 1, embedText(text))
             replacements == r1.n + r2.n
         IN  IF replacements = 0
             THEN r2.data \o <<NL, NL>> \o text
             ELSE r2.data

(***************************************************************************)
(* Compare: two FNV-1 128-bit digests (hash/fnv New128), compared           *)
(***************************************************************************)
\* The bytes of an atom
Bytes(a) ==
    LET open  == <<60, 33, 45, 45, 32, 103, 111, 109, 97, 114, 107, 100, 111, 99, 58>>
        close == <<32, 45, 45, 62>>
    IN  CASE a = "x" -> <<120>>
          [] a = "y" -> <<121>>
          [] a = " " -> <<32>>
          [] a = NL  -> <<10>>
          [] a = "M" -> open \o <<69, 109, 98, 101, 100>> \o close
          [] a = "m" -> open \o <<101, 109, 98, 101, 100>> \o close
          [] a = "S" -> open \o <<69, 109, 98, 101, 100, 58, 115, 116, 97, 114, 116>> \o close
          [] a = "E" -> open \o <<69, 109, 98, 101, 100, 58, 101, 110, 100>> \o close
          [] a = "m8107E-J860jE..0EmVF" ->
                <<109, 56, 49, 48, 55, 69, 45, 74, 56, 54, 48, 106, 69, 46, 46, 48, 69, 109, 86, 70>>
          [] a = "lMmV074JLr,nCe1P3f7h" ->
                <<108, 77, 109, 86, 48, 55, 52, 74, 76, 114, 44, 110, 67, 101, 49, 80, 51, 102, 55, 104>>

\* x XOR y on bytes
RECURSIVE Xor(_, _, _)
Xor(x, y, bits) ==
    IF bits = 0 THEN 0
    ELSE ((x + y) % 2) + 2 * Xor(x \div 2, y \div 2, bits - 1)

\* The 128-bit state as 16 bytes, least significant first.
\* offset128 = 0x6c62272e07bb014262b821756295c58d
offset128 == <<141, 197, 149, 98, 117, 33, 184, 98, 66, 1, 187, 7, 46, 39, 98, 108>>

\* h * prime128 mod 2^128, prime128 = 2^88 + 0x13b: byte i of the product is
\* byte i of h * 0x13b plus byte i-11 of h, plus the carry
RECURSIVE MulPrime(_, _, _)
MulPrime(h, i, carry) ==
    IF i > 16 THEN <<>>
    ELSE LET t == h[i] * 315 + (IF i > 11 THEN h[i - 11] ELSE 0) + carry
         IN  <<t % 256>> \o MulPrime(h, i + 1, t \div 256)

\* FNV-1a instead: xor the byte in, then multiply by the prime
RECURSIVE Sum128a(_, _, _)
Sum128a(h, bs, k) ==
    IF k > Len(bs) THEN h
    ELSE LET low == Xor(h[1], bs[k], 8)
             m == MulPrime([h EXCEPT ![1] = low], 1, 0)
         IN  IF m[1] < 256 THEN Sum128a(m, bs, k + 1) ELSE h

\* sum128.Write: for each byte from k on, multiply by the prime, then xor the
\* byte in
RECURSIVE Sum128(_, _, _)
Sum128(h, bs, k) ==
    IF k > Len(bs) THEN h
    ELSE LET m == MulPrime(h, 1, 0)
             low == Xor(m[1], bs[k], 8)
         IN  IF low < 256 THEN Sum128([m EXCEPT ![1] = low], bs, k + 1) ELSE h

\* io.Copy(hash, r): the stream is written to the hash piece by piece, here
\* atom by atom from atom k on
RECURSIVE Copy(_, _, _)
Copy(h, r, k) ==
    IF k > Len(r) THEN h
    ELSE LET h1 == Sum128(h, Bytes(r[k]), 1)
         IN  IF h1[1] < 256 THEN Copy(h1, r, k + 1) ELSE h

\* The digest of a hash nothing was written to
DigestOfNothing(r) == offset128

\* hash.Sum(nil) of a fresh fnv.New128() after io.Copy of the stream
Digest(r) == Copy(offset128, r, 1)

\* Compare(r1, r2) on streams that read without error
Compare(r1, r2) == Digest(r1) = Digest(r2)

(***************************************************************************)
(* Harness for Compare: the two streams are drawn from the short texts and  *)
(* from two texts of twenty bytes                                           *)
(***************************************************************************)
MaxStream == 2
StreamAtoms == {"x", "y", " ", NL}
LongStreams == {<<"m8107E-J860jE..0EmVF">>, <<"lMmV074JLr,nCe1P3f7h">>}
Streams == SeqsUpTo(StreamAtoms, MaxStream) \cup LongStreams

CompareInit ==
    /\ pc = "call"
    /\ arg \in [r1 : Streams, r2 : Streams]
    /\ ret = NoValue
    /\ NoRun

CompareCall ==
    /\ pc = "call"
    /\ ret' = [match |-> Compare(arg.r1, arg.r2)]
    /\ pc' = "done"
    /\ UNCHANGED <<arg, runVars>>

CompareNext == CompareCall

SpecCompare == CompareInit /\ [][CompareNext]_vars

\* The bytes of a stream
RECURSIVE Content(_)
Content(r) == IF r = <<>> THEN <<>> ELSE Bytes(Head(r)) \o Content(Tail(r))

\* C11 as stated: Compare is reflexive and symmetric, and returns false
\* whenever the two streams differ in length or in any byte, also when
\* exactly one of them is empty.
C11_CompareDecidesEquality ==
    pc = "done" =>
        /\ ret.match = Compare(arg.r2, arg.r1)
        /\ ret.match <=> Content(arg.r1) = Content(arg.r2)

\* C11 amended: Compare is reflexive and symmetric, and returns false for
\* two streams that differ in length or in any byte unless their 128-bit
\* FNV-1 digests coincide: it returns false for all the short streams that
\* differ, also when exactly one is empty, and true for the two different
\* streams "m8107E-J860jE..0EmVF" and "lMmV074JLr,nCe1P3f7h".
C11_CompareDecidesDigests ==
    pc = "done" =>
        /\ ret.match = Compare(arg.r2, arg.r1)
        /\ Content(arg.r1) = Content(arg.r2) => ret.match
        /\ {arg.r1, arg.r2} = LongStreams => ret.match
        /\ (Content(arg.r1) # Content(arg.r2) /\ {arg.r1, arg.r2} # LongStreams) => ~ret.match

\* C11 witness: the two different streams of twenty bytes have been
\* compared and reported equal.
C11_Witness ==
    /\ pc = "done"
    /\ arg.r1 # arg.r2 /\ {arg.r1, arg.r2} = LongStreams
    /\ ret.match

(***************************************************************************)
(* Harness for EmbedContents: the file and the text are drawn from the      *)
(* short texts, and from the files that hold the wrapped block of the text  *)
(***************************************************************************)
MaxData == 3
MaxText == 1
MaxAround == 1
FileAtoms == {"x", " ", NL, "M", "m", "S", "E"}
TextAtoms == {"x", "M", "S", "E"}
MarkerAtoms == {"M", "S", "E"}

EmbedFiles(text) ==
    SeqsUpTo(FileAtoms, MaxData)
        \cup {pre \o embedText(text) \o post :
                pre \in SeqsUpTo(FileAtoms, MaxAround), post \in SeqsUpTo(FileAtoms, MaxAround)}

EmbedInit ==
    /\ pc = "call"
    /\ \E text \in SeqsUpTo(TextAtoms, MaxText) :
          arg \in [file : [kind : {"file"}, data : EmbedFiles(text)]
                            \cup {[kind |-> "absent", data |-> <<>>]},
                   text : {text}]
    /\ ret = NoValue
    /\ NoRun

EmbedCall ==
    /\ pc = "call"
    /\ ret' = EmbedContents(arg.file, arg.text)
    /\ pc' = "done"
    /\ UNCHANGED <<arg, runVars>>

EmbedNext == EmbedCall

SpecEmbed == EmbedInit /\ [][EmbedNext]_vars

\* The file of the call is readable
Readable == arg.file.kind = "file"

\* Neither pattern matches anywhere in the file: zero substitutions
NoSubstitution ==
    \A i \in 1..Len(arg.file.data) :
        StandaloneMatch(arg.file.data, i) = 0 /\ StartMatch(arg.file.data, i) = 0

\* C3: merging into a readable file in which nothing is substituted yields
\* the original content, a blank line, then the wrapped block, both markers
\* included.
C3_FirstAdoptionAppendsWrapped ==
    (pc = "done" /\ Readable /\ NoSubstitution)
        => ret = arg.file.data \o <<NL, NL>> \o embedText(arg.text)

\* A line of the file starts at i that holds a standalone marker in one of
\* the spellings, and white space only around it
MarkerLineAt(i, spellings) ==
    /\ LineStart(arg.file.data, i)
    /\ LET j == SkipSpaces(arg.file.data, i)
       IN  /\ j <= Len(arg.file.data)
           /\ arg.file.data[j] \in spellings
           /\ LazySpaceToEol(arg.file.data, j + 1) # 0

\* The wrapped block of the text stands in the result
WrappedInResult ==
    \E i \in 1..Len(ret) :
        /\ i + Len(embedText(arg.text)) - 1 <= Len(ret)
        /\ SubSeq(ret, i, i + Len(embedText(arg.text)) - 1) = embedText(arg.text)

\* The result is the file with the text appended after a blank line
AppendedResult == ret = arg.file.data \o <<NL, NL>> \o arg.text

\* C13: a file with a line that holds the standalone marker, keyword in
\* either letter case ("M" is gomarkdoc:Embed, "m" is gomarkdoc:embed),
\* with optional white space around it, gets the wrapped block spliced in
\* and nothing appended at its end.
C13_MarkerInAnyCaseIsSpliced ==
    (pc = "done" /\ Readable /\ \E i \in 1..Len(arg.file.data) : MarkerLineAt(i, {"M", "m"}))
        => WrappedInResult /\ ~AppendedResult

\* The same for the spelling gomarkdoc:Embed only
MarkerAsSpelledIsSpliced ==
    (pc = "done" /\ Readable /\ \E i \in 1..Len(arg.file.data) : MarkerLineAt(i, {"M"}))
        => WrappedInResult /\ ~AppendedResult

\* The wrapped block of the text stands in the file from position i on
WrappedAt(i) ==
    /\ i + Len(embedText(arg.text)) - 1 <= Len(arg.file.data)
    /\ SubSeq(arg.file.data, i, i + Len(embedText(arg.text)) - 1) = embedText(arg.text)

\* The wrapped block at i fills whole lines: start marker line, blank line,
\* the text, blank line, end marker line
WrappedLinesAt(i) ==
    /\ WrappedAt(i)
    /\ LineStart(arg.file.data, i)
    /\ LineEnd(arg.file.data, i + Len(embedText(arg.text)))

\* C4 as stated: merging T into any file that holds the wrapped region of T
\* yields the file unchanged.
C4_IdempotentOnAnyWrappedFile ==
    (pc = "done" /\ Readable /\ \E i \in 1..Len(arg.file.data) : WrappedLinesAt(i))
        => ret = arg.file.data

\* The wrapped block at i fills whole lines, and no marker stands in the
\* file outside it
CleanlyWrappedAt(i) ==
    LET n == Len(embedText(arg.text))
    IN  /\ WrappedLinesAt(i)
        /\ \A k \in 1..Len(arg.file.data) :
              (k < i \/ k >= i + n) => arg.file.data[k] \notin MarkerAtoms

\* The text holds no standalone marker and no end marker
TextHoldsNoEndOrStandalone == \A k \in 1..Len(arg.text) : arg.text[k] \notin {"M", "E"}

\* C4 amended: when the text holds no standalone or end marker, and the
\* wrapped block of the text fills whole lines of a file that holds no other
\* marker, merging the text yields the file unchanged.
C4_IdempotentOnCleanlyWrappedFile ==
    (pc = "done" /\ Readable /\ TextHoldsNoEndOrStandalone
        /\ \E i \in 1..Len(arg.file.data) : CleanlyWrappedAt(i))
        => ret = arg.file.data

\* C4 witness: a merge into a file with content before and after the
\* wrapped block of a non-empty text has returned.
C4_Witness ==
    /\ pc = "done" /\ Readable /\ TextHoldsNoEndOrStandalone
    /\ arg.text # <<>>
    /\ \E i \in 2..Len(arg.file.data) :
          CleanlyWrappedAt(i) /\ i + Len(embedText(arg.text)) <= Len(arg.file.data)

(***************************************************************************)
(* DefaultTags: the Tags flag read from GOFLAGS with a flag.FlagSet.        *)
(* A flags string is a sequence of atoms: "-", "=", "," and " " are single  *)
(* characters, every other atom is a word without any of them.              *)
(***************************************************************************)
\* strings.Split(s, sep) for a one-character sep
RECURSIVE Split(_, _)
Split(s, sep) ==
    IF \A k \in 1..Len(s) : s[k] # sep THEN <<s>>
    ELSE LET k == CHOOSE k \in 1..Len(s) : s[k] = sep /\ \A j \in 1..(k - 1) : s[j] # sep
         IN  <<SubSeq(s, 1, k - 1)>> \o Split(SubSeq(s, k + 1, Len(s)), sep)

\* strings.Fields(s): the non-empty pieces between spaces
Fields(s) == SelectSeq(Split(s, " "), LAMBDA f : f # <<>>)

\* len(s) < 2 in bytes: only the one-character atoms are shorter than 2
ShorterThanTwo(s) == Len(s) = 0 \/ (Len(s) = 1 /\ s[1] \in {"-", "=", ","})

\* The flag the FlagSet defines: fs.String("Tags", "", "")
TagsFlagName == <<"Tags">>

\* FlagSet.parseOne and the loop of FlagSet.Parse with ContinueOnError, for
\* a FlagSet whose only flag is the string flag TagsFlagName.
\* value is the flag's current value; the result is [err, value].
RECURSIVE FlagParse(_, _)
FlagParse(args, value) ==
    IF args = <<>> THEN [err |-> FALSE, value |-> value]
    ELSE LET s == Head(args)
         IN  IF ShorterThanTwo(s) \/ s[1] # "-" THEN [err |-> FALSE, value |-> value]
             ELSE LET numMinuses == IF s[2] = "-" THEN 2 ELSE 1
                      name0 == SubSeq(s, numMinuses + 1, Len(s))
                  IN  IF numMinuses = 2 /\ Len(s) = 2 THEN [err |-> FALSE, value |-> value]
                      ELSE IF name0 = <<>> \/ name0[1] = "-" \/ name0[1] = "="
                      THEN [err |-> TRUE, value |-> value]
                      ELSE LET eqs == {i \in 2..Len(name0) : name0[i] = "="}
                               hasValue == eqs # {}
                               eq == IF hasValue THEN CHOOSE i \in eqs : \A j \in eqs : i <= j ELSE 0
                               name == IF hasValue THEN SubSeq(name0, 1, eq - 1) ELSE name0
                               val == IF hasValue THEN SubSeq(name0, eq + 1, Len(name0)) ELSE <<>>
                               rest == Tail(args)
                           IN  IF name # TagsFlagName THEN [err |-> TRUE, value |-> value]
                               ELSE IF hasValue THEN FlagParse(rest, val)
                               ELSE IF rest # <<>> THEN FlagParse(Tail(rest), Head(rest))
                               ELSE [err |-> TRUE, value |-> value]

\* DefaultTags(); env is GOFLAGS: [set, value].  A nil slice is <<>>.
DefaultTags(env) ==
    IF ~env.set THEN <<>>
    ELSE LET r == FlagParse(Fields(env.value), <<>>)
         IN  IF r.err THEN <<>> ELSE Split(r.value, ",")

MaxFlags == 2
MaxTagList == 2
FlagNames == {<<>>, <<"tags">>, <<"Tags">>, <<"other">>}
TagWords == {"foo", "bar"}

RECURSIVE Repeat(_, _)
Repeat(a, n) == IF n = 0 THEN <<>> ELSE <<a>> \o Repeat(a, n - 1)

\* Comma-separated lists of up to n words
RECURSIVE CommaLists(_)
CommaLists(n) ==
    IF n = 0 THEN {<<>>}
    ELSE LET shorter == CommaLists(n - 1)
         IN  shorter \cup {<<w>> : w \in TagWords}
                \cup {l \o <<",", w>> : l \in {m \in shorter : m # <<>>}, w \in TagWords}

\* One field of a flags string: dashes, a name, and possibly "=" and a value
FlagTokens ==
    {Repeat("-", n) \o name \o v :
        n \in 0..3, name \in FlagNames,
        v \in {<<>>} \cup {<<"=">> \o l : l \in CommaLists(MaxTagList)}} \ {<<>>}

RECURSIVE FlagStrings(_)
FlagStrings(n) ==
    IF n = 0 THEN {<<>>}
    ELSE LET shorter == FlagStrings(n - 1)
         IN  shorter \cup FlagTokens \cup {l \o <<" ">> \o t : l \in shorter \ {<<>>}, t \in FlagTokens}

TagsInit ==
    /\ pc = "call"
    /\ arg \in [set : {TRUE}, value : FlagStrings(MaxFlags)] \cup {[set |-> FALSE, value |-> <<>>]}
    /\ ret = NoValue
    /\ NoRun

TagsCall ==
    /\ pc = "call"
    /\ ret' = DefaultTags(arg)
    /\ pc' = "done"
    /\ UNCHANGED <<arg, runVars>>

TagsNext == TagsCall

SpecTags == TagsInit /\ [][TagsNext]_vars

\* C8: "-tags=foo,bar" yields the tags foo and bar; a string with only an
\* unrecognized option, an unparsable string and an absent variable yield no
\* tag.
C8_TagsFromGoflags ==
    pc = "done" =>
        /\ (arg.set /\ arg.value = <<"-", "tags", "=", "foo", ",", "bar">>)
                => ret = << <<"foo">>, <<"bar">> >>
        /\ (arg.set /\ arg.value = <<"-", "other", "=", "foo">>) => ret = <<>>
        /\ (arg.set /\ arg.value = <<"-", "=", "foo">>) => ret = <<>>
        /\ ~arg.set => ret = <<>>

(***************************************************************************)
(* GetSpecs.  A path is the sequence of its segments between separators:    *)
(* "./a/..." is <<".", "a", "...">>, "./a/" is <<".", "a", "">>, and the    *)
(* empty string is <<>>.  The file system is a set of entries               *)
(* [path, kind] under the working directory, whose own path is <<>>.        *)
(***************************************************************************)
Last(p) == p[Len(p)]
Front(p) == SubSeq(p, 1, Len(p) - 1)

\* strings.HasSuffix(path, "/...")
HasRecursiveSuffix(path) == Len(path) >= 2 /\ Last(path) = "..."

\* path[0 : len(path)-3]: the separator before the marker stays
TrimRecursive(path) == Front(path) \o <<"">>

\* IsLocalPath: the prefix "./" or "../", or an absolute path
IsLocalPath(path) == Len(path) >= 2 /\ path[1] \in {".", "..", ""}

\* filepath.Clean
RECURSIVE CleanSegments(_, _, _)
CleanSegments(p, out, rooted) ==
    IF p = <<>> THEN out
    ELSE LET seg == Head(p)
         IN  IF seg \in {"", "."} THEN CleanSegments(Tail(p), out, rooted)
             ELSE IF seg = ".."
             THEN IF out # <<>> /\ Last(out) # ".." THEN CleanSegments(Tail(p), Front(out), rooted)
                  ELSE IF rooted THEN CleanSegments(Tail(p), out, rooted)
                  ELSE CleanSegments(Tail(p), Append(out, seg), rooted)
             ELSE CleanSegments(Tail(p), Append(out, seg), rooted)

Clean(p) ==
    LET rooted == Len(p) >= 2 /\ p[1] = ""
        out == CleanSegments(p, <<>>, rooted)
    IN  IF rooted THEN (IF out = <<>> THEN <<"", "">> ELSE <<"">> \o out)
        ELSE IF out = <<>> THEN <<".">> ELSE out

\* filepath.Join(p, name)
Join(p, name) == Clean(Append(p, name))

\* ignoredDirs
ignoredDirs == {".git"}

\* A traversal that skips no directory
IsIgnoredDirNever(dirname) == FALSE

\* IsIgnoredDir: the name is one of ignoredDirs
IsIgnoredDir(dirname) == dirname \in ignoredDirs

\* The entry names of the model, in the order ioutil.ReadDir sorts them
NameOrder == <<".git", "a", "b">>

\* The entry of the tree a path names; paths out of the working directory
\* name nothing
Lookup(tree, p) ==
    LET c == Clean(p)
        q == IF c = <<".">> THEN <<>> ELSE c
    IN  {n \in tree : n.path = q}

\* ioutil.ReadDir(p): the entries of a readable directory, sorted by name
ReadDir(tree, p) ==
    LET found == Lookup(tree, p)
    IN  IF found = {} \/ \A n \in found : n.kind # "dir" THEN [err |-> TRUE, files |-> <<>>]
        ELSE LET dir == CHOOSE n \in found : TRUE
                 child(name) == {n \in tree : n.path = Append(dir.path, name)}
                 present == SelectSeq(NameOrder, LAMBDA name : child(name) # {})
             IN  [err |-> FALSE,
                  files |-> [k \in 1..Len(present) |->
                                [name |-> present[k],
                                 isDir |-> (CHOOSE n \in child(present[k]) : TRUE).kind # "file"]]]

NilPkg == [loaded |-> FALSE, doc |-> <<>>]

PackageSpec(dir, importPath, isWildcard, isLocal) ==
    [Dir |-> dir, ImportPath |-> importPath, IsWildcard |-> isWildcard, IsLocal |-> isLocal,
     OutputFile |-> <<>>, Pkg |-> NilPkg]

\* The inner loop over the entries of directory p, from entry k on: the
\* descriptors and the queue elements it appends
RECURSIVE ScanFiles(_, _, _)
ScanFiles(files, k, p) ==
    IF k > Len(files) THEN [specs |-> <<>>, pushed |-> <<>>]
    ELSE LET f == files[k]
             rest == ScanFiles(files, k + 1, p)
         IN  IF IsIgnoredDir(f.name) \/ ~f.isDir THEN rest
             ELSE LET joined == Join(p, f.name)
                      subPath == IF ~IsLocalPath(joined) THEN <<".">> \o joined ELSE joined
                  IN  [specs |-> <<PackageSpec(subPath, subPath, TRUE, TRUE)>> \o rest.specs,
                       pushed |-> <<subPath>> \o rest.pushed]

\* One iteration of the loop over the queue.  g is [expanded, queue, e]: the
\* descriptors so far, the list, and the position of element e in it (0 is
\* nil).  The element before e is removed, then e's directory is read.
VisitElement(g, tree) ==
    LET queue1 == IF g.e > 1
                  THEN SubSeq(g.queue, 1, g.e - 2) \o SubSeq(g.queue, g.e, Len(g.queue))
                  ELSE g.queue
        e1 == IF g.e > 1 THEN g.e - 1 ELSE g.e
        p == queue1[e1]
        rd == ReadDir(tree, p)
        scan == IF rd.err THEN [specs |-> <<>>, pushed |-> <<>>] ELSE ScanFiles(rd.files, 1, p)
        queue2 == queue1 \o scan.pushed
    IN  [expanded |-> g.expanded \o scan.specs,
         queue |-> queue2,
         e |-> IF e1 + 1 <= Len(queue2) THEN e1 + 1 ELSE 0]

\* The body of the loop over the paths, up to the start of the traversal
ExpandPath(expanded, path) ==
    IF ~HasRecursiveSuffix(path)
    THEN [expanded |-> Append(expanded,
                PackageSpec(IF IsLocalPath(path) THEN path ELSE <<".">>, path, FALSE, IsLocalPath(path))),
          queue |-> <<>>, e |-> 0]
    ELSE IF ~IsLocalPath(TrimRecursive(path))
    THEN [expanded |-> Append(expanded, PackageSpec(<<".">>, path, FALSE, FALSE)),
          queue |-> <<>>, e |-> 0]
    ELSE [expanded |-> Append(expanded,
                PackageSpec(TrimRecursive(path), TrimRecursive(path), TRUE, TRUE)),
          queue |-> <<TrimRecursive(path)>>, e |-> 1]

RECURSIVE Traverse(_, _)
Traverse(g, tree) == IF g.e = 0 THEN g.expanded ELSE Traverse(VisitElement(g, tree), tree)

\* GetSpecs(paths...) as one call
RECURSIVE GetSpecsFrom(_, _, _)
GetSpecsFrom(expanded, paths, tree) ==
    IF paths = <<>> THEN expanded
    ELSE GetSpecsFrom(Traverse(ExpandPath(expanded, Head(paths)), tree), Tail(paths), tree)

GetSpecs(paths, tree) == GetSpecsFrom(<<>>, paths, tree)

(***************************************************************************)
(* Harness for GetSpecs: the loops of GetSpecs, one iteration per step,     *)
(* over every file system of up to MaxNodes entries                         *)
(***************************************************************************)
MaxNodes == 4
EntryNames == {".git", "a", "b"}
EntryKinds == {"dir", "unreadable", "file"}

\* The path of entry k when parent[k] is the entry that holds it; entry 1 is
\* the working directory
RECURSIVE PathOf(_, _, _)
PathOf(k, parent, name) ==
    IF k = 1 THEN <<>> ELSE Append(PathOf(parent[k], parent, name), name[k])

\* Every file system of exactly n entries: no two entries share a path, and
\* only directories hold entries
TreesOf(n) ==
    LET parents == {p \in [2..n -> 1..n] : \A k \in 2..n : p[k] < k}
        kinds == {c \in [1..n -> EntryKinds] : c[1] # "file"}
    IN  {{[path |-> PathOf(k, parent, name), kind |-> kind[k]] : k \in 1..n} :
            <<parent, name, kind>> \in
                {t \in parents \X [2..n -> EntryNames] \X kinds :
                    /\ \A k \in 2..n : t[3][t[1][k]] # "file"
                    /\ \A j, k \in 2..n :
                          (j < k /\ t[1][j] = t[1][k]) => t[2][j] # t[2][k]}}

\* Every file system of up to m entries
TreesUpTo(m) == UNION {TreesOf(n) : n \in 1..m}

ArgLists ==
    {<< <<".", "a", "...">> >>, << <<".", "...">> >>, << <<"a", "...">> >>,
     << <<".", "a">>, <<".", "b", "...">> >>}

GetSpecsInit ==
    /\ pc = "paths"
    /\ arg \in [paths : ArgLists, tree : TreesUpTo(MaxNodes)]
    /\ ret = [expanded |-> <<>>, queue |-> <<>>, e |-> 0, rest |-> arg.paths, visits |-> 0]
    /\ NoRun

\* for _, path := range paths: one path, up to the start of its traversal
GetSpecsPath ==
    /\ pc = "paths"
    /\ ret.rest # <<>>
    /\ LET g == ExpandPath(ret.expanded, Head(ret.rest))
       IN  /\ ret' = [expanded |-> g.expanded, queue |-> g.queue, e |-> g.e,
                      rest |-> Tail(ret.rest), visits |-> ret.visits]
           /\ pc' = IF g.e # 0 THEN "queue" ELSE "paths"
    /\ UNCHANGED <<arg, runVars>>

\* for e := queue.Front(); e != nil; e = e.Next(): one iteration
GetSpecsVisit ==
    /\ pc = "queue"
    /\ LET g == VisitElement(ret, arg.tree)
       IN  /\ ret' = [expanded |-> g.expanded, queue |-> g.queue, e |-> g.e,
                      rest |-> ret.rest, visits |-> ret.visits + 1]
           /\ pc' = IF g.e # 0 THEN "queue" ELSE "paths"
    /\ UNCHANGED <<arg, runVars>>

\* return expanded
GetSpecsReturn ==
    /\ pc = "paths"
    /\ ret.rest = <<>>
    /\ pc' = "done"
    /\ UNCHANGED <<arg, ret, runVars>>

GetSpecsNext == GetSpecsPath \/ GetSpecsVisit \/ GetSpecsReturn

SpecGetSpecs == GetSpecsInit /\ [][GetSpecsNext]_vars

\* The call has one argument, a local recursive wildcard whose directory
\* exists
OneLocalWildcard ==
    /\ Len(arg.paths) = 1
    /\ HasRecursiveSuffix(arg.paths[1])
    /\ IsLocalPath(TrimRecursive(arg.paths[1]))
    /\ \E n \in Lookup(arg.tree, TrimRecursive(arg.paths[1])) : n.kind # "file"

\* The entry a descriptor names
EntryPath(spec) == IF Clean(spec.Dir) = <<".">> THEN <<>> ELSE Clean(spec.Dir)
RootPath == EntryPath([Dir |-> TrimRecursive(arg.paths[1])])

IsPrefix(p, q) == Len(p) <= Len(q) /\ SubSeq(q, 1, Len(p)) = p

\* The directories of the tree under the root, the root included
TreeDirs == {n.path : n \in {m \in arg.tree : m.kind # "file" /\ IsPrefix(RootPath, m.path)}}

\* A directory below the root named in the ignore list, or beneath one
Ignored(path) == \E k \in (Len(RootPath) + 1)..Len(path) : path[k] \in ignoredDirs

Emitted == {EntryPath(ret.expanded[k]) : k \in 1..Len(ret.expanded)}

AllWildcardLocalOnce ==
    /\ \A k \in 1..Len(ret.expanded) : ret.expanded[k].IsWildcard /\ ret.expanded[k].IsLocal
    /\ \A j, k \in 1..Len(ret.expanded) :
          j # k => EntryPath(ret.expanded[j]) # EntryPath(ret.expanded[k])

\* C7 as stated: one descriptor per directory of the tree, the root
\* included, none for an ignored directory or a directory beneath one, none
\* twice, and the traversal ends within one visit per directory.
C7_OneDescriptorPerDirectory ==
    OneLocalWildcard =>
        /\ AllWildcardLocalOnce
        /\ ret.visits <= Cardinality(TreeDirs)
        /\ \A d \in Emitted : ~Ignored(d)
        /\ pc = "done" => Emitted = {d \in TreeDirs : ~Ignored(d)}

\* The directories the traversal can reach: every directory between the
\* root and it, the root included, is readable, and no name below the root
\* is in the ignore list
Reachable(path) ==
    /\ \A k \in Len(RootPath)..(Len(path) - 1) :
          \E n \in arg.tree : n.path = SubSeq(path, 1, k) /\ n.kind = "dir"
    /\ \A k \in (Len(RootPath) + 1)..Len(path) : path[k] \notin ignoredDirs

\* C7 amended: exactly the directories are emitted that are reached from the
\* root through readable directories and names not in the ignore list, the
\* root included; every descriptor is wildcard and local, none is emitted
\* twice, and the traversal ends within one visit per directory.
C7_OneDescriptorPerReachableDirectory ==
    OneLocalWildcard =>
        /\ AllWildcardLocalOnce
        /\ ret.visits <= Cardinality(TreeDirs)
        /\ Emitted \subseteq {d \in TreeDirs : Reachable(d)}
        /\ pc = "done" => Emitted = {d \in TreeDirs : Reachable(d)}

\* C7 witness: a traversal has ended that emitted a directory below the
\* root and skipped an ignored directory and a directory beneath an
\* unreadable one.
C7_Witness ==
    /\ pc = "done" /\ OneLocalWildcard
    /\ \E d \in Emitted : Len(d) > Len(RootPath)
    /\ \E d \in TreeDirs : Ignored(d) /\ d \notin Emitted
    /\ \E d \in TreeDirs : ~Ignored(d) /\ d \notin Emitted

(***************************************************************************)
(* The run of the command: BuildCommand's RunE, RunCommand, ResolveOutput,  *)
(* LoadPackages and WriteOutput                                             *)
(***************************************************************************)
Error(kind, file) == [kind |-> kind, file |-> file]
NilError == Error("nil", <<>>)

\* errors.New("Output does not match current files. Did you forget to run gomarkdoc?")
checkErr == Error("checkErr", <<>>)

Event(op, file, res, pkgs) == [op |-> op, file |-> file, res |-> res, pkgs |-> pkgs]

\* A file of the model: absent, present but not to be opened, or a regular
\* file with its data
AbsentFile == [kind |-> "absent", data |-> <<>>]
DeniedFile == [kind |-> "denied", data |-> <<>>]
RegularFile(data) == [kind |-> "file", data |-> data]

FileAt(files, fileName) == IF fileName \in DOMAIN files THEN files[fileName] ELSE AbsentFile

\* The error values of package os: what os.Open returns is a *PathError
\* around the errno; os.ErrNotExist is a value of another type
NoOsError == [type |-> "nil", Err |-> ""]
PathError(errno) == [type |-> "*fs.PathError", Err |-> errno]
ErrNotExist == [type |-> "*errors.errorString", Err |-> "file does not exist"]

\* os.Open(path) and os.ReadFile(fileName): the error
OsOpen(file) ==
    CASE file.kind = "absent" -> PathError("ENOENT")
      [] file.kind = "denied" -> PathError("EACCES")
      [] OTHER -> NoOsError


\* err == os.ErrNotExist
EqualsErrNotExist(e) == e = ErrNotExist

\* CheckFile(b, path); file is the state of path
CheckFile(b, path, file) ==
    IF OsOpen(file) # NoOsError
    THEN IF EqualsErrNotExist(OsOpen(file)) THEN checkErr ELSE Error("openFailed", path)
    ELSE IF ~Compare(b, file.data) THEN checkErr
    ELSE NilError

\* A write that opens the file without truncating it, and appends
WriteFileAppend(files, fileName, text) ==
    IF FileAt(files, fileName).kind = "denied"
    THEN [err |-> Error("writeFailed", fileName), files |-> files]
    ELSE [err |-> NilError,
          files |-> [f \in DOMAIN files \cup {fileName} |->
                        IF f = fileName
                        THEN RegularFile(FileAt(files, fileName).data \o text)
                        ELSE files[f]]]

\* WriteFile(fileName, text): the error and the files after it
WriteFile(files, fileName, text) ==
    IF FileAt(files, fileName).kind = "denied"
    THEN [err |-> Error("writeFailed", fileName), files |-> files]
    ELSE [err |-> NilError,
          files |-> [f \in DOMAIN files \cup {fileName} |->
                        IF f = fileName THEN RegularFile(text) ELSE files[f]]]

\* opts.Output as a template:
\*   "bad"      does not parse                 "empty"    the empty string
\*   "lit"      README.md                      "dir"      {{.Dir}}/README.md
\*   "nofield"  {{.Nope}}                      "wildonly" {{if .IsWildcard}}README.md{{end}}
OutputTemplates == {"bad", "empty", "lit", "dir", "nofield", "wildonly"}

\* outputTmpl.Execute(&outputFile, spec): the error and the string
TemplateExecute(tmpl, spec) ==
    CASE tmpl = "lit" -> [err |-> FALSE, out |-> <<"README.md">>]
      [] tmpl = "dir" -> [err |-> FALSE, out |-> Append(spec.Dir, "README.md")]
      [] tmpl = "wildonly" ->
            [err |-> FALSE, out |-> IF spec.IsWildcard THEN <<"README.md">> ELSE <<>>]
      [] tmpl = "nofield" -> [err |-> TRUE, out |-> <<>>]
      [] OTHER -> [err |-> FALSE, out |-> <<>>]

\* ResolveOutput(specs, outputTmpl): the error and the descriptors
RECURSIVE ResolveOutput(_, _)
ResolveOutput(ss, tmpl) ==
    IF ss = <<>> THEN [err |-> FALSE, specs |-> <<>>]
    ELSE LET x == TemplateExecute(tmpl, Head(ss))
             rest == ResolveOutput(Tail(ss), tmpl)
         IN  IF x.err \/ rest.err THEN [err |-> TRUE, specs |-> <<>>]
             ELSE [err |-> FALSE,
                   specs |-> <<[Head(ss) EXCEPT
                                  !.OutputFile = IF x.out = <<>> THEN <<>> ELSE Clean(x.out)]>>
                             \o rest.specs]

\* The switch of ResolveOverrides on opts.Format
ValidFormats == {"github", "azure-devops", "plain"}

\* The documentation of a package: a text that its import path determines
DocOf(importPath) == IF importPath = <<".", "a">> THEN <<"x">> ELSE <<"y">>

\* out.File(lang.NewFile(header, footer, pkgs)) with empty header and footer
RECURSIVE Render(_)
Render(pkgs) ==
    IF pkgs = <<>> THEN <<>>
    ELSE IF Len(pkgs) = 1 THEN pkgs[1].doc
    ELSE pkgs[1].doc \o <<NL>> \o Render(Tail(pkgs))

\* The grouping with each package put before the earlier ones of its file
RECURSIVE GroupPkgsPrepend(_, _, _)
GroupPkgsPrepend(ss, k, m) ==
    IF k > Len(ss) THEN m
    ELSE IF ~ss[k].Pkg.loaded THEN GroupPkgsPrepend(ss, k + 1, m)
    ELSE LET f == ss[k].OutputFile
         IN  GroupPkgsPrepend(ss, k + 1,
                [g \in DOMAIN m \cup {f} |->
                    IF g \in DOMAIN m THEN (IF g = f THEN <<ss[k].Pkg>> \o m[g] ELSE m[g])
                    ELSE <<ss[k].Pkg>>])

\* filePkgs[spec.OutputFile] = append(filePkgs[spec.OutputFile], spec.Pkg)
\* for the descriptors from k on
RECURSIVE GroupPkgs(_, _, _)
GroupPkgs(ss, k, m) ==
    IF k > Len(ss) THEN m
    ELSE IF ~ss[k].Pkg.loaded THEN GroupPkgs(ss, k + 1, m)
    ELSE LET f == ss[k].OutputFile
         IN  GroupPkgs(ss, k + 1,
                [g \in DOMAIN m \cup {f} |->
                    IF g \in DOMAIN m THEN (IF g = f THEN Append(m[g], ss[k].Pkg) ELSE m[g])
                    ELSE <<ss[k].Pkg>>])

EmptyMap == [f \in {} |-> <<>>]

\* The directories of the runs
RunTree ==
    {[path |-> <<>>, kind |-> "dir"], [path |-> <<"a">>, kind |-> "dir"],
     [path |-> <<"b">>, kind |-> "dir"], [path |-> <<"b", ".git">>, kind |-> "dir"],
     [path |-> <<"b", "a">>, kind |-> "dir"]}

RunArgs == {<<>>, << <<".", "a">> >>, << <<".", "a">>, <<".", "b", "...">> >>}

\* The contents a destination may hold before the run
RunFiles ==
    {AbsentFile, DeniedFile, RegularFile(<<"x">>), RegularFile(embedText(<<"x">>))}

\* len(args) == 0: default to the current directory
DefaultArgs(a) == IF a = <<>> THEN << <<".">> >> ELSE a

\* The destinations of a command line
Destinations(o, a) ==
    LET r == ResolveOutput(GetSpecs(DefaultArgs(a), RunTree), o.Output)
    IN  IF r.err THEN {} ELSE {r.specs[k].OutputFile : k \in 1..Len(r.specs)} \ {<<>>}

Init ==
    /\ pc = "BuildCommand"
    /\ arg = NoValue /\ ret = NoValue
    /\ opts \in [Check : BOOLEAN, Embed : BOOLEAN, Output : OutputTemplates,
                 Format : {"github", "html"}]
    /\ cmdArgs \in RunArgs
    /\ specs = <<>>
    /\ fs \in [Destinations(opts, cmdArgs) -> RunFiles]
    /\ cursor = 0
    /\ filePkgs = EmptyMap
    /\ pending = {}
    /\ err = NilError
    /\ stdout = <<>>
    /\ trace = <<>>
    /\ fs0 = fs

Fail(e) == pc' = "failed" /\ err' = e

\* A command that accepts Check without an output
CheckWithoutOutputNever(o) == FALSE

\* opts.Check && opts.Output == ""
CheckWithoutOutput(o) == o.Check /\ o.Output = "empty"

\* RunE of the command, up to the call of RunCommand
BuildCommandRunE ==
    /\ pc = "BuildCommand"
    /\ IF CheckWithoutOutput(opts)
       THEN Fail(Error("checkWithoutOutput", <<>>)) /\ UNCHANGED cmdArgs
       ELSE pc' = "RunCommand" /\ cmdArgs' = DefaultArgs(cmdArgs) /\ UNCHANGED err
    /\ UNCHANGED <<arg, ret, opts, specs, fs, cursor, filePkgs, pending, stdout, trace, fs0>>

\* RunCommand, up to the call of LoadPackages
RunCommand ==
    /\ pc = "RunCommand"
    /\ IF opts.Output = "bad"
       THEN Fail(Error("invalidTemplate", <<>>)) /\ UNCHANGED <<specs, cursor>>
       ELSE LET r == ResolveOutput(GetSpecs(cmdArgs, RunTree), opts.Output)
            IN  IF r.err
                THEN Fail(Error("templateExecute", <<>>)) /\ UNCHANGED <<specs, cursor>>
                ELSE pc' = "LoadPackages" /\ specs' = r.specs /\ cursor' = 1 /\ UNCHANGED err
    /\ UNCHANGED <<arg, ret, opts, cmdArgs, fs, filePkgs, pending, stdout, trace, fs0>>

\* A loader that forgives a wildcard descriptor every failure
LoadFailureFatalUnlessWildcard(spec, res) == res # "ok" /\ ~spec.IsWildcard

\* Whether LoadPackages returns the error of a load: a GetBuildPackage error
\* unless the descriptor is a wildcard one, a NewPackageFromBuild error always
LoadFailureIsFatal(spec, res) ==
    \/ res = "buildErr" /\ ~spec.IsWildcard
    \/ res = "newPackageErr"

\* LoadPackages: one iteration of the loop.  GetBuildPackage and
\* lang.NewPackageFromBuild each succeed or fail.
LoadPackagesSpec ==
    /\ pc = "LoadPackages"
    /\ cursor <= Len(specs)
    /\ \E res \in {"ok", "buildErr", "newPackageErr"} :
          LET spec == specs[cursor]
          IN  /\ trace' = Append(trace, Event("load", spec.ImportPath, res, <<>>))
              /\ CASE LoadFailureIsFatal(spec, res) ->
                        /\ Fail(Error(IF res = "buildErr" THEN "invalidPackage" ELSE "newPackage",
                                      spec.ImportPath))
                        /\ UNCHANGED <<cursor, specs>>
                   [] res # "ok" /\ ~LoadFailureIsFatal(spec, res) ->
                        cursor' = cursor + 1 /\ UNCHANGED <<pc, err, specs>>
                   [] OTHER ->
                        /\ specs' = [specs EXCEPT ![cursor].Pkg =
                                        [loaded |-> TRUE, path |-> spec.ImportPath,
                                         doc |-> DocOf(spec.ImportPath)]]
                        /\ cursor' = cursor + 1
                        /\ UNCHANGED <<pc, err>>
    /\ UNCHANGED <<arg, ret, opts, cmdArgs, fs, filePkgs, pending, stdout, fs0>>

\* The return of LoadPackages and WriteOutput up to its loop over filePkgs
WriteOutputBegin ==
    /\ pc = "LoadPackages"
    /\ cursor > Len(specs)
    /\ IF opts.Format \notin ValidFormats
       THEN Fail(Error("invalidFormat", <<>>)) /\ UNCHANGED <<filePkgs, pending>>
       ELSE /\ filePkgs' = GroupPkgs(specs, 1, EmptyMap)
            /\ pending' = DOMAIN filePkgs'
            /\ pc' = "range"
            /\ UNCHANGED err
    /\ UNCHANGED <<arg, ret, opts, cmdArgs, specs, fs, cursor, stdout, trace, fs0>>

\* A merge that is left out when the output is verified
ShouldEmbedUnlessCheck(o, fileName) == o.Embed /\ ~o.Check /\ fileName # <<>>

\* opts.Embed && fileName != ""
ShouldEmbed(o, fileName) == o.Embed /\ fileName # <<>>

\* A switch that tests opts.Check before the empty file name
PolicyCheckFirst(o, fileName) ==
    CASE o.Check -> "check"
      [] fileName = <<>> -> "print"
      [] OTHER -> "write"

\* The switch of WriteOutput
Policy(o, fileName) ==
    CASE fileName = <<>> -> "print"
      [] o.Check -> "check"
      [] OTHER -> "write"

PkgPaths(pkgs) == [k \in 1..Len(pkgs) |-> pkgs[k].path]

\* WriteOutput: one iteration of the loop over filePkgs, whose order is the
\* map's; out.File succeeds or fails
WriteOutputFile ==
    /\ pc = "range"
    /\ \E fileName \in pending, rendered \in BOOLEAN :
          LET pkgs == filePkgs[fileName]
              file == FileAt(fs, fileName)
              embed == ShouldEmbed(opts, fileName)
              text == IF embed THEN EmbedContents(file, Render(pkgs)) ELSE Render(pkgs)
              t1 == Append(trace, Event("render", fileName,
                                        IF rendered THEN "ok" ELSE "err", PkgPaths(pkgs)))
              t2 == IF embed
                    THEN Append(t1, Event("readfile", fileName,
                                          IF OsOpen(file) = NoOsError THEN "ok" ELSE "err", <<>>))
                    ELSE t1
          IN  /\ pending' = pending \ {fileName}
              /\ IF ~rendered
                 THEN /\ Fail(Error("render", fileName))
                      /\ trace' = t1
                      /\ UNCHANGED <<fs, stdout>>
                 ELSE CASE Policy(opts, fileName) = "print" ->
                            /\ stdout' = Append(stdout, text)
                            /\ trace' = Append(t2, Event("print", fileName, "ok", <<>>))
                            /\ UNCHANGED <<pc, err, fs>>
                        [] Policy(opts, fileName) = "check" ->
                            LET e == CheckFile(text, fileName, file)
                            IN  /\ trace' = Append(t2, Event("check", fileName, e.kind, <<>>))
                                /\ IF e # NilError THEN Fail(e) ELSE UNCHANGED <<pc, err>>
                                /\ UNCHANGED <<fs, stdout>>
                        [] OTHER ->
                            LET w == WriteFile(fs, fileName, text)
                            IN  /\ trace' = Append(t2, Event("write", fileName, w.err.kind, <<>>))
                                /\ fs' = w.files
                                /\ IF w.err # NilError
                                   THEN Fail(Error("writeOutputFailed", fileName))
                                   ELSE UNCHANGED <<pc, err>>
                                /\ UNCHANGED stdout
    /\ UNCHANGED <<arg, ret, opts, cmdArgs, specs, cursor, filePkgs, fs0>>

\* return nil
WriteOutputReturn ==
    /\ pc = "range"
    /\ pending = {}
    /\ pc' = "done"
    /\ UNCHANGED <<arg, ret, runVars>>

Next ==
    \/ BuildCommandRunE
    \/ RunCommand
    \/ LoadPackagesSpec
    \/ WriteOutputBegin
    \/ WriteOutputFile
    \/ WriteOutputReturn

Spec == Init /\ [][Next]_vars

(***************************************************************************)
(* Properties of the run                                                   *)
(***************************************************************************)
EventsOf(op) == {k \in 1..Len(trace) : trace[k].op = op}

\* The rendered text of a destination unit
RenderedText(fileName) == Render(filePkgs[fileName])

\* C1: under Verify with a non-empty destination, a destination file that
\* does not exist makes the run fail with the drift error.
C1_MissingFileIsDrift ==
    \A k \in EventsOf("check") :
        FileAt(fs0, trace[k].file).kind = "absent"
            => trace[k].res = "checkErr" /\ pc = "failed" /\ err = checkErr

ReconciledText(fileName) ==
    IF ShouldEmbed(opts, fileName)
    THEN EmbedContents(FileAt(fs0, fileName), RenderedText(fileName))
    ELSE RenderedText(fileName)

C5_EmptyDestinationPrints ==
    /\ \A k \in 1..Len(trace) :
          (trace[k].op \in {"readfile", "check", "write", "print"} /\ trace[k].file = <<>>)
              => trace[k].op = "print"
    /\ \A k \in EventsOf("render") :
          (trace[k].file = <<>> /\ trace[k].res = "ok")
              => /\ k < Len(trace) /\ trace[k + 1].op = "print"
                 /\ stdout = <<RenderedText(<<>>)>>
                 /\ fs = fs0 \/ \E j \in EventsOf("write") : trace[j].file # <<>>

\* C5 witness: with both flags set, a unit with an empty destination has
\* been printed.
C5_Witness ==
    /\ opts.Check /\ opts.Embed
    /\ \E k \in EventsOf("print") : trace[k].file = <<>>
    /\ stdout # <<>>

\* The run ended with the error of load k, and that load was its last step
AbortedAtLoad(k) ==
    /\ pc = "failed" /\ k = Len(trace)
    /\ err.kind \in {"invalidPackage", "newPackage"} /\ err.file = trace[k].file

\* Load k left its descriptor, a wildcard one, without a model and went on
SkippedAtLoad(k) == specs[k].IsWildcard /\ ~specs[k].Pkg.loaded /\ cursor > k /\ ~AbortedAtLoad(k)

\* C6 as stated: a load failure aborts the run with the load error if and
\* only if the descriptor is non-wildcard; every load failure of a wildcard
\* descriptor leaves it without a model, is no error, and loading goes on.
\* (Load k is the load of descriptor k.)
C6_LoadFailureFatalIffNotWildcard ==
    \A k \in EventsOf("load") :
        trace[k].res # "ok" =>
            IF specs[k].IsWildcard THEN SkippedAtLoad(k) ELSE AbortedAtLoad(k)

\* C6 amended: a failure to resolve the package (GetBuildPackage) aborts the
\* run with the load error if and only if the descriptor is non-wildcard,
\* and for a wildcard descriptor leaves it without a model, is no error, and
\* loading goes on; a failure to build the model of a resolved package
\* (lang.NewPackageFromBuild) aborts the run for every descriptor.
C6_BuildFailureFatalIffNotWildcard ==
    \A k \in EventsOf("load") :
        /\ trace[k].res = "buildErr" =>
              IF specs[k].IsWildcard THEN SkippedAtLoad(k) ELSE AbortedAtLoad(k)
        /\ trace[k].res = "newPackageErr" => AbortedAtLoad(k)

\* C6 witness: a run has ended without error after a wildcard descriptor
\* failed to load and a later descriptor loaded.
C6_Witness ==
    /\ pc = "done"
    /\ \E j, k \in EventsOf("load") :
          j < k /\ trace[j].res = "buildErr" /\ specs[j].IsWildcard /\ trace[k].res = "ok"

\* Each configuration error is detected
ConfigErrorsDetected ==
    /\ (opts.Check /\ opts.Output = "empty" /\ pc # "BuildCommand")
          => pc = "failed" /\ err.kind = "checkWithoutOutput"
    /\ (opts.Output = "bad" /\ pc \notin {"BuildCommand", "RunCommand"})
          => pc = "failed" /\ err.kind = "invalidTemplate"
    /\ opts.Format \notin ValidFormats => pc \notin {"range", "done"}

ConfigErrorKinds == {"invalidTemplate", "checkWithoutOutput", "invalidFormat"}

\* C9 as stated: every configuration error (invalid output template, Verify
\* with an empty output, invalid format) is detected and aborts the run
\* before any package is loaded.
C9_ConfigErrorsBeforeAnyLoad ==
    /\ ConfigErrorsDetected
    /\ err.kind \in ConfigErrorKinds => EventsOf("load") = {}

\* C9 amended: an invalid output template and Verify with an empty output
\* are detected and abort the run before any package is loaded; an invalid
\* format is detected and aborts the run after LoadPackages has gone through
\* every descriptor, and before any unit is rendered or reconciled.
C9_ConfigErrorsBeforeAnyOutput ==
    /\ ConfigErrorsDetected
    /\ err.kind \in {"invalidTemplate", "checkWithoutOutput"} => trace = <<>>
    /\ err.kind = "invalidFormat"
          => /\ Len(trace) = Len(specs)
             /\ \A k \in 1..Len(trace) : trace[k].op = "load"
             /\ fs = fs0 /\ stdout = <<>>

\* C9 witness: a run has failed on the format after loading two packages.
C9_Witness ==
    /\ pc = "failed" /\ err.kind = "invalidFormat"
    /\ \E j, k \in EventsOf("load") : j # k /\ trace[j].res = "ok" /\ trace[k].res = "ok"

\* The destinations of the descriptors with a model from k on, each once,
\* in first-seen order
RECURSIVE FirstSeen(_, _)
FirstSeen(k, seen) ==
    IF k > Len(specs) THEN <<>>
    ELSE IF ~specs[k].Pkg.loaded \/ specs[k].OutputFile \in seen THEN FirstSeen(k + 1, seen)
    ELSE <<specs[k].OutputFile>> \o FirstSeen(k + 1, seen \cup {specs[k].OutputFile})

\* The import paths of the descriptors with a model routed to a file, in
\* descriptor order
RECURSIVE RoutedTo(_, _)
RoutedTo(fileName, k) ==
    IF k > Len(specs) THEN <<>>
    ELSE IF specs[k].Pkg.loaded /\ specs[k].OutputFile = fileName
    THEN <<specs[k].ImportPath>> \o RoutedTo(fileName, k + 1)
    ELSE RoutedTo(fileName, k + 1)

\* The destinations rendered so far, in order
RECURSIVE RenderedFrom(_)
RenderedFrom(k) ==
    IF k > Len(trace) THEN <<>>
    ELSE IF trace[k].op = "render" THEN <<trace[k].file>> \o RenderedFrom(k + 1)
    ELSE RenderedFrom(k + 1)

ModelsInDescriptorOrder ==
    \A k \in EventsOf("render") : trace[k].pkgs = RoutedTo(trace[k].file, 1)

\* C10 as stated: the units are rendered and reconciled in the first-seen
\* order of their destinations in the descriptor list, and within each unit
\* the models are in descriptor order.
C10_UnitsInFirstSeenOrder ==
    /\ ModelsInDescriptorOrder
    /\ LET done == RenderedFrom(1)
       IN  Len(done) <= Len(FirstSeen(1, {})) /\ done = SubSeq(FirstSeen(1, {}), 1, Len(done))

\* C10 amended: each destination of a descriptor with a model is rendered
\* and reconciled at most once, and exactly once in a run that ends without
\* error, in an order that is not fixed; within each unit the models are in
\* descriptor order.
C10_UnitsOnceInAnyOrder ==
    /\ ModelsInDescriptorOrder
    /\ LET done == RenderedFrom(1)
           all == {FirstSeen(1, {})[k] : k \in 1..Len(FirstSeen(1, {}))}
       IN  /\ \A j, k \in 1..Len(done) : j # k => done[j] # done[k]
           /\ \A k \in 1..Len(done) : done[k] \in all
           /\ pc = "done" => {done[k] : k \in 1..Len(done)} = all

\* C10 witness: a run has ended without error that reconciled two units,
\* one of two models, not in first-seen order.
C10_Witness ==
    /\ pc = "done"
    /\ Len(RenderedFrom(1)) = 2
    /\ RenderedFrom(1) # FirstSeen(1, {})
    /\ \E k \in EventsOf("render") : Len(trace[k].pkgs) = 2

\* The units rendered without error to a file
FileRenders ==
    {k \in EventsOf("render") : trace[k].res = "ok" /\ trace[k].file # <<>>}

\* The result of merging the rendered text of a unit into its file
MergeResult(fileName) == EmbedContents(FileAt(fs0, fileName), RenderedText(fileName))

\* Render k is followed by the reading of the file and the writing of the
\* merge result, which creates a file that is absent
MergedAt(k) ==
    /\ k + 2 <= Len(trace)
    /\ trace[k + 1].op = "readfile" /\ trace[k + 2].op = "write"
    /\ trace[k + 2].res = "nil" => fs[trace[k].file] = RegularFile(MergeResult(trace[k].file))
    /\ FileAt(fs0, trace[k].file).kind = "absent" => trace[k + 2].res = "nil"

\* C12 as stated: whenever the merge flag is set and the destination is not
\* empty, the unit is merged and the merge result written to the file, which
\* is created if absent; one policy only is applied to a unit, so no file is
\* read for merging when the unit is verified.
C12_MergeFlagAlwaysWrites ==
    \A k \in FileRenders :
        /\ opts.Embed => MergedAt(k)
        /\ (k < Len(trace) /\ trace[k + 1].op = "readfile")
              => k + 2 <= Len(trace) /\ trace[k + 2].op = "write"

\* C12 amended: whenever the merge flag is set, the verify flag is not and
\* the destination is not empty, the merge result is written to the file,
\* which is created if absent; when both flags are set the merge result is
\* computed and compared with the file, and nothing is written; without
\* the merge flag the rendered text is verified or written; every unit
\* rendered without error ends in exactly one of print, compare and write.
C12_MergeFlagWritesUnlessVerify ==
    /\ \A k \in FileRenders :
          /\ (opts.Embed /\ ~opts.Check) => MergedAt(k)
          /\ (opts.Embed /\ opts.Check) =>
                /\ k + 2 <= Len(trace)
                /\ trace[k + 1].op = "readfile" /\ trace[k + 2].op = "check"
                /\ trace[k + 2].res =
                      CheckFile(MergeResult(trace[k].file), trace[k].file,
                                FileAt(fs0, trace[k].file)).kind
                /\ fs = fs0
          /\ ~opts.Embed =>
                /\ k < Len(trace)
                /\ trace[k + 1].op = (IF opts.Check THEN "check" ELSE "write")
    /\ \A k \in EventsOf("render") :
          (trace[k].res = "ok" /\ trace[k].file = <<>>)
              => k < Len(trace) /\ trace[k + 1].op = "print"
    /\ \A k \in 1..Len(trace) :
          trace[k].op \in {"print", "check", "write"}
              => k > 1 /\ trace[k - 1].op \in {"render", "readfile"}

\* C12 witness: with both flags set, a merge result has been compared with
\* a file that holds it, and another with a file that does not.
C12_Witness ==
    /\ opts.Embed /\ opts.Check
    /\ \E j, k \in FileRenders :
          /\ j + 2 <= Len(trace) /\ trace[j + 2].op = "check" /\ trace[j + 2].res = "nil"
          /\ k + 2 <= Len(trace) /\ trace[k + 2].op = "check" /\ trace[k + 2].res = "checkErr"

(***************************************************************************)
(* Two runs in a row on one destination with the same rendered text: two   *)
(* runs with the merge flag, or a run that replaces the file and then a    *)
(* run that verifies it.  A run is the body of the loop of WriteOutput for *)
(* the unit of the destination.                                            *)
(***************************************************************************)
MaxRerunData == 2
RerunFile == <<"README.md">>
RerunTexts == {<<>>} \cup {<<a>> : a \in TextAtoms}
RerunFiles(text) ==
    {AbsentFile, DeniedFile, RegularFile(embedText(text))}
        \cup {RegularFile(d) : d \in SeqsUpTo(FileAtoms, MaxRerunData)}

RerunInit ==
    /\ pc = "first"
    /\ \E text \in RerunTexts :
          /\ arg \in [text : {text}, flags : {"embed", "none then check"}]
          /\ fs \in [{RerunFile} -> RerunFiles(text)]
    /\ fs0 = fs
    /\ ret = NoValue
    /\ opts = NoValue /\ cmdArgs = <<>> /\ specs = <<>> /\ cursor = 0
    /\ filePkgs = <<>> /\ pending = {} /\ err = NoValue /\ stdout = <<>> /\ trace = <<>>

\* A run with opts.Embed and without opts.Check: the text becomes the result
\* of EmbedContents and is written
MergeRun ==
    /\ pc \in {"first", "second"}
    /\ arg.flags = "embed"
    /\ LET w == WriteFile(fs, RerunFile, EmbedContents(FileAt(fs, RerunFile), arg.text))
       IN  /\ fs' = w.files
           /\ ret' = [run |-> "merge", err |-> w.err, before |-> FileAt(fs, RerunFile)]
           /\ pc' = IF w.err # NilError THEN "failed"
                    ELSE IF pc = "first" THEN "second" ELSE "done"
    /\ UNCHANGED <<arg, opts, cmdArgs, specs, cursor, filePkgs, pending, err, stdout, trace, fs0>>

\* A run without opts.Embed and opts.Check: the text is written
ReplaceRun ==
    /\ pc = "first"
    /\ arg.flags = "none then check"
    /\ LET w == WriteFile(fs, RerunFile, arg.text)
       IN  /\ fs' = w.files
           /\ ret' = [run |-> "replace", err |-> w.err, before |-> FileAt(fs, RerunFile)]
           /\ pc' = IF w.err # NilError THEN "failed" ELSE "second"
    /\ UNCHANGED <<arg, opts, cmdArgs, specs, cursor, filePkgs, pending, err, stdout, trace, fs0>>

\* A run with opts.Check and without opts.Embed: the text is checked
VerifyRun ==
    /\ pc = "second"
    /\ arg.flags = "none then check"
    /\ LET e == CheckFile(arg.text, RerunFile, FileAt(fs, RerunFile))
       IN  /\ ret' = [run |-> "verify", err |-> e, before |-> FileAt(fs, RerunFile)]
           /\ pc' = IF e # NilError THEN "failed" ELSE "done"
    /\ UNCHANGED <<arg, fs, opts, cmdArgs, specs, cursor, filePkgs, pending, err, stdout,
                   trace, fs0>>

RerunNext == MergeRun \/ ReplaceRun \/ VerifyRun

SpecRerun == RerunInit /\ [][RerunNext]_vars

\* C14: after a run with the merge flag has written the file, a second run
\* with the merge flag and the same text leaves the file as the first run
\* left it, whatever the file held or whether it existed before.
C14_SecondMergeChangesNothing ==
    (arg.flags = "embed" /\ pc = "done") => fs[RerunFile] = ret.before

\* The same for a text without marker and a file in which the first run has
\* substituted a marker or a region, or that did not exist
SecondMergeAfterSubstitution ==
    (/\ arg.flags = "embed" /\ pc = "done"
     /\ \A k \in 1..Len(arg.text) : arg.text[k] \notin MarkerAtoms
     /\ EmbedContents(fs0[RerunFile], arg.text)
            # fs0[RerunFile].data \o <<NL, NL>> \o arg.text)
        => fs[RerunFile] = ret.before

\* C15: after a run that replaced the file with the rendered text without
\* error, a run that verifies the file against the same text ends without
\* error and leaves the file as it was, whatever the file held or whether it
\* existed before the first run.
C15_ReplaceThenVerifySucceeds ==
    (pc \in {"done", "failed"} /\ ret.run = "verify")
        => /\ ret.err = NilError /\ pc = "done"
           /\ fs[RerunFile] = ret.before
           /\ fs[RerunFile] = RegularFile(arg.text)

\* C15 witness: a file that did not exist, and a file that held another
\* text, have been replaced and then verified.
C15_Witness ==
    /\ pc = "done" /\ ret.run = "verify"
    /\ arg.text # <<>>
    /\ fs0[RerunFile].kind = "file" /\ fs0[RerunFile].data # arg.text
    /\ fs0[RerunFile].data # <<>>

====
